---- MODULE Spec2Model ----
(***************************************************************************)
(* Ground loop heat exchanger (GLHE) of EnergyPlus: the load history of    *)
(* GroundHeatExchangers.cc (sub-hourly, hourly and monthly heat pulses),   *)
(* the temporal superposition of calcGroundHeatExchanger and the          *)
(* g-function lookup interpGFunc.                                          *)
(*                                                                         *)
(* Real64 quantities are carried in fixed point, 1/1000 of the unit (mK,   *)
(* mW/m, 1/1000 m.K/W); a product or quotient is rounded to that grid.     *)
(* Elapsed time is carried in ticks, TicksPerHour of them in an hour.      *)
(***************************************************************************)
EXTENDS Integers, Sequences, FiniteSets, TLC

(***************************************************************************)
(* Module parameters and the sizes GetGroundHeatExchangerInput sets.       *)
(***************************************************************************)
hrsPerDay == 24
hrsPerMonth == 730
maxTSinHr == 60
SubAGG == 15
AGG == 192
monthsInYear == 12

(* Input data of the devices (one record of numeric fields per device).    *)
maxSimYears == 1
tempGround == 15000
kGroundFactor == 4335
totalTubeLength == 20000
timeSSFactor == 613000
Rcond == 30
Rgrout == 110
LNTTS == <<-14000, -12000, -9000, -7000>>
GFNC == <<200, 700, 2000, 3400>>
NPairs == Len(LNTTS)

(* Fluid properties (FluidProperties, an external collaborator): the       *)
(* specific heat, and the lumped factor of the convective film coefficient.*)
cpFluid == 4180000
(* GroundHeatExchanger:Slinky: the table that calcGFunctions computes (log
   time, response), the pipe resistance of two pipes in parallel *)
LNTTSSlinky == <<-2000, 0, 2000, 4000>>
GFNCSlinky == <<500, 1500, 3000, 4500>>
RcondSlinky == 15
(* pipe outer diameter (mm), the wall thicknesses of the input files, the
   temperature difference above which updateGHX warns *)
pipeOutDia == 26
PipeThicks == {2, 13}
deltaTempLimit == 100000
ConvFactor == 1400

(* Bounds of the exploration.                                              *)
MaxGLHE == 2
MaxStepsPerHour == 2
SubSteps == 2
MaxWarmupDays == 2
MaxRunDays == 2
MaxEnvrn == 2
MaxIter == 1
LongDays == 70
MaxPairs == 4
MaxTrenches == 3
MaxCoils == 3
SolveTicks == 12
MaxNamedGLHE == 3

TicksPerHour == MaxStepsPerHour * SubSteps

VARIABLES
    (* DataGlobals / DataHVACGlobals, set by the enclosing simulation *)
    DayOfSim, HourOfDay, TimeStep, TimeStepZone, SysTimeElapsed,
    WarmupFlag, BeginEnvrnFlag,
    (* module variables of GroundHeatExchangers *)
    numVerticalGLHEs, N, currentSimTime, locHourOfDay, locDayOfSim,
    prevTimeSteps,
    (* function statics of calcGroundHeatExchanger *)
    PrevN, updateCurSimTime, triggerDesignDayReset,
    (* members of each GLHE, indexed by device number *)
    QnSubHr, QnHr, QnMonthlyAgg, LastHourN, prevHour, lastQnSubHr,
    inletTemp, outletTemp, QGLHE, aveFluidTemp, boreholeTemp,
    massFlowRate, myEnvrnFlag,
    (* the enclosing simulation: environment number, devices called in the
       current pass of the loop, devices whose inlet conditions have settled
       in this time step, free iterations left in this time step, the
       long-run switch *)
    envrn, called, converged, itersLeft, longRun,
    (* observation only: what the last step did, with the months each device
       has stored since its histories were last cleared; the elapsed time of each
       device's latest call; whether this time step is the first after a
       change of environment or a return of DayOfSim to 1 *)
    last, callTime, resetDue,
    (* a table, a query and the answer of interpGFunc *)
    lookup,
    (* the input file: the number of coil devices, the type of each device,
       its pipe wall thickness, whether a far-field ground temperature
       field was left blank, whether shallow ground temperatures exist *)
    numSlinkyGLHEs, kind, pipeThick, useGroundTempDataForKusuda,
    PubGroundTempSurfFlag,
    (* the loop surges (hot, a trickle of flow) in one hour of each day *)
    surge,
    (* function statics of SimGroundHeatExchangers, calcGroundHeatExchanger
       and updateGHX *)
    GetInput, firstTime, numErrorCalls,
    (* the one-time name-check flags, one module array for both device
       types; the component index the loop keeps for each device, 0 until
       the first call has found the device by name *)
    checkEquipName, compIndex,
    (* the number of calcGFunctions runs of each device; whether the program
       runs ("no"), has ended in a fatal error ("fatal") or has read an
       unallocated array ("undefined") *)
    gFuncCalls, halted,
    (* the inputs and the results of one solve on an empty history, by the
       single-pulse formula and by the superposition *)
    solve,
    (* a coil field, a ring-to-ring response, and the field averages that
       calcGFunctions and the sum over all ring pairs give *)
    field

clockVars == <<DayOfSim, HourOfDay, TimeStep, TimeStepZone, SysTimeElapsed,
               WarmupFlag, BeginEnvrnFlag>>
moduleVars == <<numVerticalGLHEs, N, currentSimTime, locHourOfDay,
                locDayOfSim, prevTimeSteps, PrevN, updateCurSimTime,
                triggerDesignDayReset>>
memberVars == <<QnSubHr, QnHr, QnMonthlyAgg, LastHourN, prevHour,
                lastQnSubHr, inletTemp, outletTemp, QGLHE, aveFluidTemp,
                boreholeTemp, massFlowRate, myEnvrnFlag>>
driverVars == <<envrn, called, converged, itersLeft, longRun>>
ghostVars == <<last, callTime, resetDue>>
inputVars == <<numSlinkyGLHEs, kind, pipeThick, useGroundTempDataForKusuda,
               PubGroundTempSurfFlag, surge>>
staticVars == <<GetInput, firstTime, numErrorCalls, checkEquipName, compIndex>>
runVars == <<gFuncCalls, halted>>
callVars == <<solve, field>>
vars == <<clockVars, moduleVars, memberVars, driverVars, ghostVars, lookup,
          inputVars, staticVars, runVars, callVars>>

(* the devices in the order in which the plant loop calls them *)
GLHEs == 1..(numVerticalGLHEs + numSlinkyGLHEs)

(***************************************************************************)
(* Array helpers (ObjexxFCL FArray1D).                                     *)
(***************************************************************************)
(* dimension( n, v ): an array of n entries, all v *)
dimension(n, v) == SubSeq([i \in 1..n |-> v], 1, n)

(* variant: x enters at the front and nothing is dropped *)
eoshiftGrow(a, x) == <<x>> \o a

(* eoshift( a, -1, x ): every entry moves back by one, x enters at the
   front, the last entry is dropped *)
eoshift(a, x) == <<x>> \o SubSeq(a, 1, Len(a) - 1)

(* F applied to the value v, v computed once *)
Let(v, F(_)) == CHOOSE r \in {F(x) : x \in {v}} : TRUE

(* NaN stands for a Real64 that is no finite number (0/0, x/0, the log of a
   non-positive number) and for the content of a read outside an array; it
   propagates through every operation *)
NaN == -2000000000

(* an array read; outside the array the content is not defined *)
At(a, i) == IF i \in DOMAIN a THEN a[i] ELSE NaN

(* Real64 sum, difference, product and quotient on the 1/1000 grid *)
RAdd(a, b) == IF a = NaN \/ b = NaN THEN NaN ELSE a + b
RSub(a, b) == IF a = NaN \/ b = NaN THEN NaN ELSE a - b
RMul(a, b) == IF a = NaN \/ b = NaN THEN NaN ELSE (a * b) \div 1000
RDiv(a, b) == IF a = NaN \/ b = NaN \/ b = 0 THEN NaN ELSE (a * 1000) \div b
Abs(x) == IF x = NaN THEN NaN ELSE IF x < 0 THEN -x ELSE x

(* a Real64 times, or divided by, a duration or a count *)
TMul(a, n) == IF a = NaN \/ n = NaN THEN NaN ELSE a * n
TDiv(a, n) == IF a = NaN \/ n = NaN \/ n = 0 THEN NaN ELSE a \div n

(* sum of f[lo..hi] split in halves (bounded evaluation depth) *)
RECURSIVE SumOver(_, _, _)
SumOver(f, lo, hi) ==
    IF lo > hi THEN 0
    ELSE IF lo = hi THEN f[lo]
    ELSE LET mid == (lo + hi) \div 2
         IN RAdd(SumOver(f, lo, mid), SumOver(f, mid + 1, hi))

(* int( t ) of an elapsed time in hours *)
IntHours(t) == t \div TicksPerHour

(***************************************************************************)
(* std::log on the grid: 1000 * ln(n) for an integer n >= 1, exact at the  *)
(* powers of two and linear between them; a non-positive argument has no   *)
(* logarithm (-inf or NaN in Real64).                                      *)
(***************************************************************************)
RECURSIVE Log2Floor(_)
Log2Floor(n) == IF n < 2 THEN 0 ELSE 1 + Log2Floor(n \div 2)

Ln(n) ==
    IF n <= 0 THEN NaN
    ELSE LET k == Log2Floor(n)
             p == 2 ^ k
         IN 693 * k + (693 * (n - p)) \div p

(* XI = std::log( dt / timeSSFactor ) for an elapsed-time difference dt in
   ticks (timeSSFactor is in hours) *)
LnTimeSS == Ln(TicksPerHour) + Ln(timeSSFactor)

LnTTs(dt) ==
    IF dt = NaN \/ dt <= 0 THEN NaN
    ELSE Ln(dt) - LnTimeSS

(***************************************************************************)
(* GLHEBase::interpGFunc: the table lnT (log-time) / gF (response) of np   *)
(* pairs, queried at x.                                                    *)
(***************************************************************************)
(* the binary search: the last probe Mid and whether it hit x *)
RECURSIVE BinarySearch(_, _, _, _, _)
BinarySearch(lnT, x, Low, High, Mid) ==
    IF Low > High THEN [Mid |-> Mid, Found |-> FALSE]
    ELSE LET m == (Low + High) \div 2
         IN IF lnT[m] < x THEN BinarySearch(lnT, x, m + 1, High, m)
            ELSE IF lnT[m] > x THEN BinarySearch(lnT, x, Low, m - 1, m)
            ELSE [Mid |-> m, Found |-> TRUE]

(* variant: the value of entry b, whatever x *)
LineClamped(lnT, gF, x, a, b) == gF[b]

(* the line through entries a and b of the table, anchored at b *)
LineAt(lnT, gF, x, a, b) ==
    RMul(RDiv(x - lnT[b], lnT[a] - lnT[b]), gF[a] - gF[b]) + gF[b]

interpGFunc(lnT, gF, np, x) ==
    IF x = NaN THEN NaN
    ELSE IF x <= lnT[1] THEN LineAt(lnT, gF, x, 2, 1)
    ELSE IF x > lnT[np] THEN LineAt(lnT, gF, x, np - 1, np)
    ELSE LET r == BinarySearch(lnT, x, 1, np, 0)
         IN IF r.Found THEN gF[r.Mid]
            ELSE LET Mid == IF lnT[r.Mid] < x THEN r.Mid + 1 ELSE r.Mid
                 IN LineAt(lnT, gF, x, Mid - 1, Mid)

(* gFuncVal / kGroundFactor for an elapsed-time difference dt (ticks) *)
RQAt(dt) == RDiv(interpGFunc(LNTTS, GFNC, NPairs, LnTTs(dt)), kGroundFactor)

(* the same, tabulated for the elapsed times of a run *)
LongestRun == (LongDays + MaxWarmupDays + 1) * hrsPerDay * TicksPerHour
RQTable == SubSeq([dt \in 1..LongestRun |-> RQAt(dt)], 1, LongestRun)

RQ(dt) == IF dt \in 1..LongestRun THEN RQTable[dt] ELSE RQAt(dt)

(* the same for a coil device: timeSSFactor is 1, the table is the one of
   calcGFunctions, getGFunc is interpGFunc *)
LnSlinky(dt) ==
    IF dt = NaN \/ dt <= 0 THEN NaN
    ELSE Ln(dt) - Ln(TicksPerHour)

RQSlinkyAt(dt) ==
    RDiv(interpGFunc(LNTTSSlinky, GFNCSlinky, Len(LNTTSSlinky), LnSlinky(dt)),
         kGroundFactor)

FieldRun == 2 * hrsPerDay * TicksPerHour
RQSlinkyTable == SubSeq([dt \in 1..FieldRun |-> RQSlinkyAt(dt)], 1, FieldRun)

RQSlinky(dt) == IF dt \in 1..FieldRun THEN RQSlinkyTable[dt] ELSE RQSlinkyAt(dt)

(***************************************************************************)
(* GLHEVert::calcHXResistance: the convective resistance is zero without   *)
(* flow, else it falls with the flow as Re^0.8 (here the integer part of   *)
(* mdot^0.8), and the wall and grout resistances are added.                *)
(***************************************************************************)
Pow08(x) == LET y == x * x * x * x
            IN CHOOSE r \in 0..70 : r * r * r * r * r <= y
                                    /\ y < (r + 1) * (r + 1) * (r + 1) * (r + 1) * (r + 1)

(* variant: a trickle of flow counts as no flow *)
noConvectionTrickle(mdot) == mdot <= 10

(* the test of the zero-convection shortcut: BholeMdot == 0.0, the flow of
   one borehole (of one trench for a coil), which is zero exactly when the
   flow of the device is *)
noConvection(mdot) == mdot = 0

Rconv(mdot) == IF noConvection(mdot) THEN 0 ELSE ConvFactor \div Pow08(mdot)

calcHXResistance(mdot) == Rcond + Rconv(mdot) + Rgrout

(* GLHESlinky::calcHXResistance: no grout *)
calcHXResistanceSlinky(mdot) == RcondSlinky + Rconv(mdot)

(***************************************************************************)
(* The state one SimGroundHeatExchangers call works on: the module         *)
(* variables, the statics, the members of the device called, and the       *)
(* record tr of what the call did.                                         *)
(***************************************************************************)
NoTrace ==
    [envInit |-> FALSE, reset |-> FALSE, timePush |-> FALSE,
     subPush |-> FALSE, hourPush |-> FALSE, K |-> 0, monthNum |-> 0,
     branch |-> "none", currentMonth |-> 0, oob |-> FALSE,
     gFunc |-> FALSE, excursion |-> FALSE, warned |-> FALSE,
     outletNodeTemp |-> 0]

Working(d) ==
    [N |-> N, currentSimTime |-> currentSimTime,
     locHourOfDay |-> locHourOfDay, locDayOfSim |-> locDayOfSim,
     prevTimeSteps |-> prevTimeSteps, PrevN |-> PrevN,
     updateCurSimTime |-> updateCurSimTime,
     triggerDesignDayReset |-> triggerDesignDayReset,
     QnSubHr |-> QnSubHr[d], QnHr |-> QnHr[d],
     QnMonthlyAgg |-> QnMonthlyAgg[d], LastHourN |-> LastHourN[d],
     prevHour |-> prevHour[d], lastQnSubHr |-> lastQnSubHr[d],
     inletTemp |-> inletTemp[d], outletTemp |-> outletTemp[d],
     QGLHE |-> QGLHE[d], aveFluidTemp |-> aveFluidTemp[d],
     boreholeTemp |-> boreholeTemp[d], massFlowRate |-> massFlowRate[d],
     myEnvrnFlag |-> myEnvrnFlag[d], nodeTemp |-> 0, tr |-> NoTrace,
     kind |-> kind[d], firstTime |-> firstTime,
     numErrorCalls |-> numErrorCalls, gFuncCalls |-> gFuncCalls[d]]

(* a whole array set to one value ( A = v ) *)
Fill(a, v) == dimension(Len(a), v)

(***************************************************************************)
(* GLHEVert::initGLHESimVars: at the first call of an environment the      *)
(* histories are zeroed and the nodes set to the ground temperature; the   *)
(* plant then sets the flow (mdot) and, unless the nodes were just         *)
(* initialised, the inlet node holds the loop's temperature Tin.           *)
(***************************************************************************)
initGLHESimVars(s, Tin, mdot) ==
    LET init == s.myEnvrnFlag /\ BeginEnvrnFlag
        s1 == IF init
              THEN [s EXCEPT !.myEnvrnFlag = FALSE,
                             !.lastQnSubHr = 0,
                             !.nodeTemp = tempGround,
                             !.QnHr = Fill(@, 0),
                             !.QnMonthlyAgg = Fill(@, 0),
                             !.QnSubHr = Fill(@, 0),
                             !.LastHourN = Fill(@, 0),
                             !.prevTimeSteps = Fill(@, 0),
                             !.currentSimTime = 0,
                             !.tr.envInit = TRUE]
              ELSE [s EXCEPT !.nodeTemp = Tin]
    IN [s1 EXCEPT !.massFlowRate = mdot,
                  !.myEnvrnFlag = IF ~BeginEnvrnFlag THEN TRUE ELSE @]

(***************************************************************************)
(* GLHEBase::calcAggregateLoad                                             *)
(***************************************************************************)
(* variant: months counted from 0 *)
monthNumberFromZero(day, hour) == (day * hrsPerDay + hour) \div hrsPerMonth - 1

(* MonthNum = ( locDayOfSim * hrsPerDay + locHourOfDay ) / hrsPerMonth *)
monthNumber(day, hour) == (day * hrsPerDay + hour) \div hrsPerMonth

calcAggregateLoad(s) ==
    IF s.currentSimTime <= 0 THEN s
    ELSE
    LET hourChange == s.prevHour # s.locHourOfDay
        K == s.N - s.LastHourN[1]
        (* J after the loop *)
        Jend == IF K >= 1 THEN K + 1 ELSE 1
        term == [J \in 1..(Jend - 1) |->
                   TMul(At(s.QnSubHr, J),
                        Abs(RSub(At(s.prevTimeSteps, J),
                                 At(s.prevTimeSteps, J + 1))))]
        span == Abs(RSub(At(s.prevTimeSteps, 1), At(s.prevTimeSteps, Jend)))
        SumQnHr == TDiv(SumOver(term, 1, Jend - 1), span)
        s1 == IF hourChange
              THEN [s EXCEPT !.QnHr = eoshift(@, SumQnHr),
                             !.LastHourN = eoshift(@, s.N),
                             !.tr.hourPush = TRUE,
                             !.tr.K = K,
                             !.tr.oob = @ \/ Jend > Len(s.prevTimeSteps)
                                          \/ Jend - 1 > Len(s.QnSubHr)]
              ELSE s
        monthPasses ==
            /\ ((s.locDayOfSim - 1) * hrsPerDay + s.locHourOfDay) % hrsPerMonth = 0
            /\ hourChange
        MonthNum == monthNumber(s.locDayOfSim, s.locHourOfDay)
        SumQnMonth == TDiv(SumOver(s1.QnHr, 1, hrsPerMonth), hrsPerMonth)
        s2 == IF monthPasses
              THEN [s1 EXCEPT !.QnMonthlyAgg =
                                  IF MonthNum \in DOMAIN @
                                  THEN [@ EXCEPT ![MonthNum] = SumQnMonth]
                                  ELSE @,
                              !.tr.monthNum = MonthNum,
                              !.tr.oob = @ \/ MonthNum \notin DOMAIN s1.QnMonthlyAgg]
              ELSE s1
    IN IF hourChange THEN [s2 EXCEPT !.prevHour = s.locHourOfDay] ELSE s2

(***************************************************************************)
(* GLHEBase::calcGroundHeatExchanger, the superposition.                   *)
(***************************************************************************)
(* the sub-hourly sum over I = 1..subHourlyLimit, G the response to a unit
   pulse as a function of the elapsed time; the last term subtracts
   QnHr( IndexN ) when closeWithHourly, and nothing otherwise *)
SubHourlySum(G(_), s, subHourlyLimit, IndexN, closeWithHourly) ==
    LET t == s.currentSimTime
        term == [I \in 1..subHourlyLimit |->
                   LET rq == G(RSub(t, At(s.prevTimeSteps, I + 1)))
                       older == IF I < subHourlyLimit THEN At(s.QnSubHr, I + 1)
                                ELSE IF closeWithHourly THEN At(s.QnHr, IndexN)
                                ELSE 0
                   IN RMul(RSub(At(s.QnSubHr, I), older), rq)]
    IN SumOver(term, 1, subHourlyLimit)

(* the hourly sum over I = SubAGG+1..hourlyLimit; with monthly aggregation
   the last term subtracts QnMonthlyAgg( currentMonth ) and is looked up at
   the elapsed time of bucket I; without, it subtracts nothing and is looked
   up at the whole elapsed time *)
HourlySum(G(_), s, hourlyLimit, aggregated, currentMonth) ==
    LET t == s.currentSimTime
        frac == t - IntHours(t) * TicksPerHour
        term == [I \in (SubAGG + 1)..hourlyLimit |->
                   IF I < hourlyLimit
                   THEN RMul(RSub(At(s.QnHr, I), At(s.QnHr, I + 1)),
                             G(frac + I * TicksPerHour))
                   ELSE IF aggregated
                   THEN RMul(RSub(At(s.QnHr, I), At(s.QnMonthlyAgg, currentMonth)),
                             G(frac + I * TicksPerHour))
                   ELSE RMul(At(s.QnHr, I), G(t))]
    IN SumOver(term, SubAGG + 1, hourlyLimit)

(* the monthly sum over I = 1..currentMonth *)
MonthlySum(G(_), s, currentMonth) ==
    LET t == s.currentSimTime
        term == [I \in 1..currentMonth |->
                   IF I = 1
                   THEN RMul(At(s.QnMonthlyAgg, 1), G(t))
                   ELSE RMul(RSub(At(s.QnMonthlyAgg, I), At(s.QnMonthlyAgg, I - 1)),
                             G(t - (I - 1) * hrsPerMonth * TicksPerHour))]
    IN SumOver(term, 1, currentMonth)

(* variant: monthly buckets enter one time step late *)
monthlySuperpositionLate(t) ==
    t > (hrsPerMonth + AGG + SubAGG) * TicksPerHour

(* whether monthly buckets enter the history sum at the elapsed time t *)
monthlySuperposition(t) ==
    ~(t < (hrsPerMonth + AGG + SubAGG) * TicksPerHour)

(* numOfMonths = ( currentSimTime + 1 ) / hrsPerMonth *)
numOfMonthsAt(t) == (t + TicksPerHour) \div (hrsPerMonth * TicksPerHour)

(* variant: the latest month always stays with the hourly entries *)
currentMonthLagging(t) == numOfMonthsAt(t) - 1

(* the number of monthly buckets in use at the elapsed time t: the latest
   month stays with the hourly entries until AGG + SubAGG hours after it *)
currentMonthAt(t) ==
    IF t < (numOfMonthsAt(t) * hrsPerMonth + AGG + SubAGG) * TicksPerHour
    THEN numOfMonthsAt(t) - 1 ELSE numOfMonthsAt(t)

(* the branch of the solver and the limits of its sums *)
Limits(s) ==
    LET t == s.currentSimTime
    IN
    IF s.N = 1
    THEN [branch |-> "first", IndexN |-> 0, subHourlyLimit |-> 0,
          hourlyLimit |-> 0, currentMonth |-> 0]
    ELSE IF ~monthlySuperposition(t)
    THEN LET IndexN == IF IntHours(t) < SubAGG THEN IntHours(t) + 1
                       ELSE SubAGG + 1
         IN [branch |-> "noagg", IndexN |-> IndexN,
             subHourlyLimit |-> s.N - At(s.LastHourN, IndexN),
             hourlyLimit |-> IntHours(t), currentMonth |-> 0]
    ELSE LET currentMonth == currentMonthAt(t)
         IN [branch |-> "agg", IndexN |-> SubAGG + 1,
             subHourlyLimit |-> s.N - At(s.LastHourN, SubAGG + 1),
             hourlyLimit |-> (t - currentMonth * hrsPerMonth * TicksPerHour)
                                 \div TicksPerHour,
             currentMonth |-> currentMonth]

(* sumTotal: the temperature difference due to all load blocks, for the
   unit response G *)
SumTotal(G(_), s, lim) ==
    IF lim.branch = "noagg"
    THEN RAdd(SubHourlySum(G, s, lim.subHourlyLimit, lim.IndexN,
                           IntHours(s.currentSimTime) >= SubAGG),
              HourlySum(G, s, lim.hourlyLimit, FALSE, 0))
    ELSE IF lim.branch = "agg"
    THEN RAdd(RAdd(MonthlySum(G, s, lim.currentMonth),
                   HourlySum(G, s, lim.hourlyLimit, TRUE, lim.currentMonth)),
              SubHourlySum(G, s, lim.subHourlyLimit, SubAGG + 1, TRUE))
    ELSE 0

(* the test of the solver's zero-flow shortcut: massFlowRate <= 0.0 *)
zeroFlowBranch(mdot) == mdot <= 0

(* variant: the linear solve whatever the flow *)
SolveAlways(s, sumTotal, RQSubHr, HXResistance) ==
    LET C0 == RQSubHr
        C1 == RSub(tempGround,
                   RSub(sumTotal, RMul(At(s.QnSubHr, 1), RQSubHr)))
        C2 == RDiv(totalTubeLength, 2 * RMul(s.massFlowRate, cpFluid))
        C3 == RDiv(RMul(s.massFlowRate, cpFluid), totalTubeLength)
    IN Let(RDiv(RSub(C1, s.inletTemp),
                RAdd(RSub(RAdd(HXResistance, C0), C2), RDiv(1000, C3))),
           LAMBDA q :
           [tmpQnSubHourly |-> q,
            fluidAveTemp |-> RSub(C1, RMul(RAdd(C0, HXResistance), q)),
            ToutNew |-> RAdd(C1, RMul(RSub(RSub(C2, C0), HXResistance), q)),
            zeroFlow |-> FALSE])

(* The explicit solution for the heat pulse and the temperatures, given the
   history sum sumTotal and the response RQSubHr of the last time step:
   the zero-flow shortcut, or the linear solve *)
Solve(s, sumTotal, RQSubHr, HXResistance) ==
    IF zeroFlowBranch(s.massFlowRate)
    THEN [tmpQnSubHourly |-> 0,
          fluidAveTemp |-> RSub(tempGround, sumTotal),
          ToutNew |-> s.inletTemp,
          zeroFlow |-> TRUE]
    ELSE LET C0 == RQSubHr
             C1 == RSub(tempGround,
                        RSub(sumTotal, RMul(At(s.QnSubHr, 1), RQSubHr)))
             C2 == RDiv(totalTubeLength, 2 * RMul(s.massFlowRate, cpFluid))
             C3 == RDiv(RMul(s.massFlowRate, cpFluid), totalTubeLength)
         IN Let(RDiv(RSub(C1, s.inletTemp),
                     RAdd(RSub(RAdd(HXResistance, C0), C2), RDiv(1000, C3))),
                LAMBDA q :
                [tmpQnSubHourly |-> q,
                 fluidAveTemp |-> RSub(C1, RMul(RAdd(C0, HXResistance), q)),
                 ToutNew |-> RAdd(C1, RMul(RSub(RSub(C2, C0), HXResistance), q)),
                 zeroFlow |-> FALSE])

(* the N = 1 branch: a single pulse, no history *)
SolveFirst(s, HXResistance) ==
    IF zeroFlowBranch(s.massFlowRate)
    THEN [tmpQnSubHourly |-> 0, fluidAveTemp |-> tempGround,
          ToutNew |-> s.inletTemp, zeroFlow |-> TRUE]
    ELSE LET g == IF s.kind = "slinky" THEN RQSlinky(s.currentSimTime)
                  ELSE RQ(s.currentSimTime)
             C_1 == RDiv(totalTubeLength, 2 * RMul(s.massFlowRate, cpFluid))
             q == RDiv(RSub(tempGround, s.inletTemp),
                       RAdd(RAdd(g, HXResistance), C_1))
         IN [tmpQnSubHourly |-> q,
             fluidAveTemp |-> RSub(tempGround, RMul(q, HXResistance)),
             ToutNew |-> RSub(tempGround,
                              RMul(q, RSub(RAdd(g, HXResistance), C_1))),
             zeroFlow |-> FALSE]

(* currentSimTime as the clock gives it, in ticks *)
ClockTime ==
    ((DayOfSim - 1) * 24 + HourOfDay - 1) * TicksPerHour
    + (TimeStep - 1) * TimeStepZone + SysTimeElapsed

(* variant: the reset keeps the step counter *)
resetHistoryKeepN(s) ==
    [s EXCEPT !.currentSimTime = 0,
              !.prevTimeSteps = Fill(@, 0),
              !.QnHr = Fill(@, 0),
              !.QnMonthlyAgg = Fill(@, 0),
              !.QnSubHr = Fill(@, 0),
              !.LastHourN = Fill(@, 1),
              !.updateCurSimTime = FALSE,
              !.triggerDesignDayReset = FALSE,
              !.tr.reset = TRUE]

(* the reset of the histories at the start of an environment *)
resetHistory(s) ==
    [s EXCEPT !.currentSimTime = 0,
              !.prevTimeSteps = Fill(@, 0),
              !.QnHr = Fill(@, 0),
              !.QnMonthlyAgg = Fill(@, 0),
              !.QnSubHr = Fill(@, 0),
              !.LastHourN = Fill(@, 1),
              !.N = 1,
              !.updateCurSimTime = FALSE,
              !.triggerDesignDayReset = FALSE,
              !.tr.reset = TRUE]

(* variant: the timestamp is stored on every call *)
pushTimeAlways(s) ==
    [s EXCEPT !.prevTimeSteps = eoshift(@, s.currentSimTime),
              !.N = @ + 1,
              !.tr.timePush = TRUE]

(* a new elapsed time enters the timestamp ring and advances N *)
pushTime(s) ==
    IF s.prevTimeSteps[1] # s.currentSimTime
    THEN [s EXCEPT !.prevTimeSteps = eoshift(@, s.currentSimTime),
                   !.N = @ + 1,
                   !.tr.timePush = TRUE]
    ELSE s

(* variant: the pulse is pushed only when N has grown beyond the saved
   counter *)
pushQnSubHrGrown(s) ==
    IF s.N > s.PrevN
    THEN [s EXCEPT !.PrevN = s.N,
                   !.QnSubHr = eoshift(@, s.lastQnSubHr),
                   !.tr.subPush = TRUE]
    ELSE s

(* variant: a zero pulse is stored instead of the last solved one *)
pushQnSubHrZero(s) ==
    IF s.N # s.PrevN
    THEN [s EXCEPT !.PrevN = s.N,
                   !.QnSubHr = eoshift(@, 0),
                   !.tr.subPush = TRUE]
    ELSE s

(* a new N puts the last solved heat pulse into the sub-hourly history *)
pushQnSubHr(s) ==
    IF s.N # s.PrevN
    THEN [s EXCEPT !.PrevN = s.N,
                   !.QnSubHr = eoshift(@, s.lastQnSubHr),
                   !.tr.subPush = TRUE]
    ELSE s

(* the branch of the solver and its results, for the histories of s *)
Superpose(s) ==
    LET t == s.currentSimTime
        HXResistance == IF s.kind = "slinky"
                        THEN calcHXResistanceSlinky(s.massFlowRate)
                        ELSE calcHXResistance(s.massFlowRate)
        RQSubHr == IF s.kind = "slinky"
                   THEN RQSlinky(RSub(t, At(s.prevTimeSteps, 2)))
                   ELSE RQ(RSub(t, At(s.prevTimeSteps, 2)))
    IN
    Let(Limits(s), LAMBDA lim :
    IF lim.branch = "first"
    THEN [branch |-> "first", sumTotal |-> 0, oob |-> FALSE,
          currentMonth |-> 0, sol |-> SolveFirst(s, HXResistance)]
    ELSE Let(IF s.kind = "slinky" THEN SumTotal(RQSlinky, s, lim)
             ELSE SumTotal(RQ, s, lim), LAMBDA sumTotal :
         [branch |-> lim.branch, sumTotal |-> sumTotal,
          oob |-> \/ lim.branch = "noagg" /\ lim.IndexN \notin DOMAIN s.LastHourN
                  \/ lim.branch = "agg"
                     /\ lim.currentMonth \notin DOMAIN s.QnMonthlyAgg
                  \/ lim.subHourlyLimit + 1 > Len(s.prevTimeSteps)
                  \/ lim.hourlyLimit > Len(s.QnHr),
          currentMonth |-> lim.currentMonth,
          sol |-> Solve(s, sumTotal, RQSubHr, HXResistance)]))

(* calcGFunctions: a stub for a vertical device; a coil device allocates
   its histories and computes its table *)
calcGFunctions(s) ==
    IF s.kind = "slinky"
    THEN [s EXCEPT !.QnMonthlyAgg = dimension(maxSimYears * monthsInYear, 0),
                   !.QnHr = dimension(hrsPerMonth + AGG + SubAGG, 0),
                   !.QnSubHr = dimension((SubAGG + 1) * maxTSinHr + 1, 0),
                   !.LastHourN = dimension(SubAGG + 1, 0),
                   !.gFuncCalls = @ + 1,
                   !.tr.gFunc = TRUE]
    ELSE [s EXCEPT !.gFuncCalls = @ + 1, !.tr.gFunc = TRUE]

(* the static firstTime lets the first call of the program, of whichever
   device, run calcGFunctions *)
calcGFunctionsOnce(s) ==
    IF s.firstTime THEN [calcGFunctions(s) EXCEPT !.firstTime = FALSE] ELSE s

(* variant: the timestamps stay *)
keepTimeSteps(s) == s

(* prevTimeSteps = 0.0 at an elapsed time <= 0 *)
zeroTimeSteps(s) == [s EXCEPT !.prevTimeSteps = Fill(@, 0)]

calcGroundHeatExchanger(sIn) ==
    LET s == calcGFunctionsOnce(sIn)
        s0 == [s EXCEPT !.inletTemp = s.nodeTemp,
                        !.updateCurSimTime =
                            IF s.triggerDesignDayReset /\ WarmupFlag
                            THEN TRUE ELSE @]
        s1 == IF DayOfSim = 1 /\ s0.updateCurSimTime
              THEN resetHistory(s0) ELSE s0
        t == ClockTime
        s2 == [s1 EXCEPT !.currentSimTime = t,
                         !.locHourOfDay = (t % (hrsPerDay * TicksPerHour))
                                              \div TicksPerHour + 1,
                         !.locDayOfSim = t \div (24 * TicksPerHour) + 1,
                         !.updateCurSimTime = IF DayOfSim > 1 THEN TRUE ELSE @,
                         !.triggerDesignDayReset =
                             IF ~WarmupFlag THEN TRUE ELSE @]
    IN
    IF t <= 0
    THEN calcAggregateLoad([zeroTimeSteps(s2) EXCEPT
                                !.outletTemp = s2.inletTemp,
                                !.tr.branch = "inactive"])
    ELSE IF Len(s2.QnSubHr) = 0
    THEN (* the histories and the table of this device were never
            allocated: every read of them is undefined *)
         [s2 EXCEPT !.tr.branch = "undefined"]
    ELSE Let(s2, LAMBDA a :
         Let(pushTime(a), LAMBDA b :
         Let(pushQnSubHr(b), LAMBDA c :
         Let(calcAggregateLoad(c), LAMBDA s3 :
         Let(Superpose(s3), LAMBDA r :
             [s3 EXCEPT !.boreholeTemp = RSub(tempGround, r.sumTotal),
                        !.lastQnSubHr = r.sol.tmpQnSubHourly,
                        !.outletTemp = r.sol.ToutNew,
                        !.QGLHE = RMul(r.sol.tmpQnSubHourly, totalTubeLength),
                        !.aveFluidTemp = r.sol.fluidAveTemp,
                        !.tr.branch = r.branch,
                        !.tr.currentMonth = r.currentMonth,
                        !.tr.oob = @ \/ r.oob])))))

(***************************************************************************)
(* GLHEBase::updateGHX: the outlet node takes the outlet temperature; a    *)
(* difference to the inlet above deltaTempLimit is reported, outside       *)
(* warmup and while the static numErrorCalls is below numVerticalGLHEs.    *)
(***************************************************************************)
updateGHX(s) ==
    LET GLHEdeltaTemp == Abs(RSub(s.outletTemp, s.inletTemp))
        above == GLHEdeltaTemp # NaN /\ GLHEdeltaTemp > deltaTempLimit
        warn == above /\ s.numErrorCalls < numVerticalGLHEs /\ ~WarmupFlag
    IN IF s.tr.branch = "undefined" THEN s
       ELSE [s EXCEPT !.tr.outletNodeTemp = s.outletTemp,
                      !.tr.excursion = above,
                      !.tr.warned = warn,
                      !.numErrorCalls = IF warn THEN @ + 1 ELSE @]

(***************************************************************************)
(* The plant loop around the heat exchangers.  Within one system time step *)
(* the loop calls each device until its inlet conditions settle: up to     *)
(* MaxIter calls see other conditions, the settled call sees the loop's    *)
(* conditions for the time step.                                           *)
(***************************************************************************)
InletTemps == {10000, 20000}
MassFlows == {0, 200}

SurgeTemp == 120000
SurgeFlow == 1

LoopInletTemp(d) ==
    IF surge /\ HourOfDay = 3 THEN SurgeTemp
    ELSE IF (HourOfDay + d) % 2 = 0 THEN 20000 ELSE 10000

LoopMassFlow(d) ==
    IF surge /\ HourOfDay = 3 THEN SurgeFlow
    ELSE IF (HourOfDay + 2 * d + TimeStep) % 5 = 0 THEN 0 ELSE 200

(* the loop calls its devices in order, pass after pass *)
NextGLHE ==
    IF called = GLHEs THEN 1
    ELSE CHOOSE d \in GLHEs \ called : \A e \in GLHEs \ called : d <= e

(* variant: a wall as thick as the outer radius passes *)
pipeErrorStrict(thick) == thick * 2 > pipeOutDia

(* the wall leaves no bore: pipeThick >= pipeOutDia / 2 *)
pipeError(thick) == thick * 2 >= pipeOutDia

(* GetGroundHeatExchangerInput: whether errorsFound is set for some device,
   i.e. whether the routine ends in ShowFatalError *)
GetGroundHeatExchangerInput ==
    \E d \in GLHEs :
        \/ pipeError(pipeThick[d])
        \/ /\ kind[d] = "slinky"
           /\ useGroundTempDataForKusuda[d]
           /\ ~PubGroundTempSurfFlag

(* ShowFatalError ends the program *)
Fatal(d) ==
    /\ halted' = "fatal"
    /\ last' = [last EXCEPT !.d = d,
                            !.tr = [NoTrace EXCEPT !.branch = "fatal"],
                            !.repeat = FALSE, !.hourCrossed = FALSE]
    /\ UNCHANGED <<clockVars, moduleVars, memberVars, driverVars, callTime,
                   resetDue, lookup, inputVars, staticVars, gFuncCalls,
                   callVars>>

(* the position of device d among the devices of its type: what
   FindItemInList returns for its name *)
GLHENum(d) == Cardinality({e \in 1..d : kind[e] = kind[d]})

(* checkEquipName after GetGroundHeatExchangerInput: dimensioned for the
   vertical devices, then dimensioned again for the coil devices *)
dimensionBoth(nV, nS) ==
    IF nS > 0 THEN dimension(nS, TRUE)
    ELSE IF nV > 0 THEN dimension(nV, TRUE)
    ELSE <<>>

(* a read and a write outside an array: the program goes on with whatever
   it read, or ends in a state the language does not define *)
Undefined(d) ==
    /\ halted' = "undefined"
    /\ last' = [last EXCEPT !.d = d,
                            !.tr = [NoTrace EXCEPT !.branch = "undefined"],
                            !.repeat = FALSE, !.hourCrossed = FALSE]
    /\ UNCHANGED <<clockVars, moduleVars, memberVars, driverVars, callTime,
                   resetDue, lookup, inputVars, staticVars, gFuncCalls,
                   callVars>>

(* initGLHESimVars, calcGroundHeatExchanger, updateGHX for device d;
   checked is the flag array the call leaves *)
Simulate(d, Tin, mdot, settled, checked) ==
    \E s0 \in {Working(d)} :
    \E s1 \in {initGLHESimVars(s0, Tin, mdot)} :
    \E s \in {updateGHX(calcGroundHeatExchanger(s1))} :
       /\ N' = s.N
       /\ currentSimTime' = s.currentSimTime
       /\ locHourOfDay' = s.locHourOfDay
       /\ locDayOfSim' = s.locDayOfSim
       /\ prevTimeSteps' = s.prevTimeSteps
       /\ PrevN' = s.PrevN
       /\ updateCurSimTime' = s.updateCurSimTime
       /\ triggerDesignDayReset' = s.triggerDesignDayReset
       /\ QnSubHr' = [QnSubHr EXCEPT ![d] = s.QnSubHr]
       /\ QnHr' = [QnHr EXCEPT ![d] = s.QnHr]
       /\ QnMonthlyAgg' = [QnMonthlyAgg EXCEPT ![d] = s.QnMonthlyAgg]
       /\ LastHourN' = [LastHourN EXCEPT ![d] = s.LastHourN]
       /\ prevHour' = [prevHour EXCEPT ![d] = s.prevHour]
       /\ lastQnSubHr' = [lastQnSubHr EXCEPT ![d] = s.lastQnSubHr]
       /\ inletTemp' = [inletTemp EXCEPT ![d] = s.inletTemp]
       /\ outletTemp' = [outletTemp EXCEPT ![d] = s.outletTemp]
       /\ QGLHE' = [QGLHE EXCEPT ![d] = s.QGLHE]
       /\ aveFluidTemp' = [aveFluidTemp EXCEPT ![d] = s.aveFluidTemp]
       /\ boreholeTemp' = [boreholeTemp EXCEPT ![d] = s.boreholeTemp]
       /\ massFlowRate' = [massFlowRate EXCEPT ![d] = s.massFlowRate]
       /\ myEnvrnFlag' = [myEnvrnFlag EXCEPT ![d] = s.myEnvrnFlag]
       /\ GetInput' = FALSE
       /\ compIndex' = [compIndex EXCEPT ![d] = GLHENum(d)]
       /\ checkEquipName' = checked
       /\ firstTime' = s.firstTime
       /\ numErrorCalls' = s.numErrorCalls
       /\ gFuncCalls' = [gFuncCalls EXCEPT ![d] = s.gFuncCalls]
       /\ halted' = IF s.tr.branch = "undefined" THEN "undefined" ELSE "no"
       /\ called' = IF called = GLHEs THEN {d} ELSE called \cup {d}
       /\ converged' = IF settled THEN converged \cup {d} ELSE converged \ {d}
       /\ itersLeft' = IF settled THEN itersLeft ELSE itersLeft - 1
       /\ last' = [d |-> d, Tin |-> Tin, mdot |-> mdot, tr |-> s.tr,
                   repeat |-> callTime[d] = ClockTime,
                   hourCrossed |-> IntHours(callTime[d]) # IntHours(ClockTime),
                   stored |-> [last.stored EXCEPT ![d] =
                       (IF s.tr.reset \/ s.tr.envInit THEN {} ELSE @)
                       \cup (IF s.tr.monthNum \in DOMAIN s.QnMonthlyAgg
                             THEN {s.tr.monthNum} ELSE {})]]
       /\ callTime' = [callTime EXCEPT ![d] = ClockTime]
       /\ UNCHANGED <<clockVars, numVerticalGLHEs, envrn, longRun, resetDue,
                      lookup, inputVars, callVars>>

(* SimGroundHeatExchangers for device d: the input is read in the first
   call of the program *)
SimGroundHeatExchangers(d, Tin, mdot) ==
    LET settled == Tin = LoopInletTemp(d) /\ mdot = LoopMassFlow(d)
    IN /\ halted = "no"
       /\ d = NextGLHE
       /\ ~settled => itersLeft > 0
       /\ IF GetInput /\ GetGroundHeatExchangerInput
          THEN Fatal(d)
          ELSE IF compIndex[d] = 0
          THEN Simulate(d, Tin, mdot, settled,
                        IF GetInput
                        THEN dimensionBoth(numVerticalGLHEs, numSlinkyGLHEs)
                        ELSE checkEquipName)
          ELSE IF compIndex[d] \in DOMAIN checkEquipName
          THEN Simulate(d, Tin, mdot, settled,
                        [checkEquipName EXCEPT ![compIndex[d]] = FALSE])
          ELSE \/ Simulate(d, Tin, mdot, settled, checkEquipName)
               \/ Undefined(d)

Sim ==
    \E d \in GLHEs :
    \E Tin \in InletTemps \cup {LoopInletTemp(d)} :
    \E mdot \in MassFlows \cup {LoopMassFlow(d)} :
        SimGroundHeatExchangers(d, Tin, mdot)

(***************************************************************************)
(* The simulation clock.  The zone time step is TimeStepZone; in some zone *)
(* time steps the system takes SubSteps shorter steps.  The clock moves    *)
(* when every device has settled.                                          *)
(***************************************************************************)
NumOfTimeStepInHour == TicksPerHour \div TimeStepZone
TimeStepSys == TimeStepZone \div SubSteps
DownStep == HourOfDay % 6 = 2 /\ TimeStep = 1

LastSysStep == ~DownStep \/ SysTimeElapsed + TimeStepSys >= TimeStepZone
EndOfDay == LastSysStep /\ TimeStep = NumOfTimeStepInHour /\ HourOfDay = 24
WarmupDays == IF longRun /\ envrn = 1 THEN 1 ELSE MaxWarmupDays
RunDays == IF longRun /\ envrn = 1 THEN LongDays ELSE MaxRunDays

Settle ==
    /\ halted = "no"
    /\ converged = GLHEs
    /\ converged' = {}
    /\ called' = {}
    /\ itersLeft' = IF longRun THEN 0 ELSE MaxIter
    /\ last' = [last EXCEPT !.d = 0, !.tr = NoTrace, !.repeat = FALSE,
                            !.hourCrossed = FALSE]
    /\ UNCHANGED <<moduleVars, memberVars, numVerticalGLHEs, longRun,
                   TimeStepZone, callTime, lookup, inputVars, staticVars,
                   runVars, callVars>>

NextSysStep ==
    /\ Settle
    /\ ~LastSysStep
    /\ SysTimeElapsed' = SysTimeElapsed + TimeStepSys
    /\ resetDue' = FALSE
    /\ UNCHANGED <<DayOfSim, HourOfDay, TimeStep, WarmupFlag, BeginEnvrnFlag,
                   envrn>>

NextTimeStep ==
    /\ Settle
    /\ LastSysStep /\ ~EndOfDay
    /\ SysTimeElapsed' = 0
    /\ BeginEnvrnFlag' = FALSE
    /\ TimeStep' = IF TimeStep = NumOfTimeStepInHour THEN 1 ELSE TimeStep + 1
    /\ HourOfDay' = IF TimeStep = NumOfTimeStepInHour THEN HourOfDay + 1
                    ELSE HourOfDay
    /\ resetDue' = FALSE
    /\ UNCHANGED <<DayOfSim, WarmupFlag, envrn>>

NextDay ==
    /\ Settle
    /\ EndOfDay
    /\ DayOfSim < (IF WarmupFlag THEN WarmupDays ELSE RunDays)
    /\ DayOfSim' = DayOfSim + 1
    /\ resetDue' = FALSE
    /\ HourOfDay' = 1 /\ TimeStep' = 1 /\ SysTimeElapsed' = 0
    /\ BeginEnvrnFlag' = FALSE
    /\ UNCHANGED <<WarmupFlag, envrn>>

EndWarmup ==
    /\ Settle
    /\ EndOfDay /\ WarmupFlag
    /\ WarmupFlag' = FALSE
    /\ resetDue' = (DayOfSim > 1)
    /\ DayOfSim' = 1
    /\ HourOfDay' = 1 /\ TimeStep' = 1 /\ SysTimeElapsed' = 0
    /\ BeginEnvrnFlag' = FALSE
    /\ UNCHANGED envrn

NewEnvironment ==
    /\ Settle
    /\ EndOfDay /\ ~WarmupFlag
    /\ longRun /\ envrn = 1 => DayOfSim = LongDays
    /\ envrn < MaxEnvrn
    /\ envrn' = envrn + 1
    /\ WarmupFlag' = TRUE
    /\ resetDue' = TRUE
    /\ BeginEnvrnFlag' = TRUE
    /\ DayOfSim' = 1
    /\ HourOfDay' = 1 /\ TimeStep' = 1 /\ SysTimeElapsed' = 0

(***************************************************************************)
(* The state after GetGroundHeatExchangerInput.                            *)
(***************************************************************************)
NoLookup == [lnT |-> LNTTS, gF |-> GFNC, x |-> 0, done |-> FALSE, y |-> 0]
NoSolution == [tmpQnSubHourly |-> 0, fluidAveTemp |-> 0, ToutNew |-> 0,
               zeroFlow |-> FALSE]
NoSolve == [Tin |-> 0, mdot |-> 0, t |-> 0, done |-> FALSE,
            first |-> NoSolution, general |-> NoSolution, Rconv |-> 0]
NoField == [numTrenches |-> 0, numCoils |-> 0, response |-> <<>>,
            done |-> FALSE, gFunc |-> 0, allPairs |-> 0, samples |-> <<>>]

InitClock ==
    /\ DayOfSim = 1 /\ HourOfDay = 1 /\ TimeStep = 1 /\ SysTimeElapsed = 0
    /\ WarmupFlag = TRUE /\ BeginEnvrnFlag = TRUE
    /\ envrn = 1 /\ called = {} /\ converged = {}
    /\ last = [d |-> 0, Tin |-> 0, mdot |-> 0, tr |-> NoTrace,
               repeat |-> FALSE, hourCrossed |-> FALSE,
               stored |-> [d \in GLHEs |-> {}]]
    /\ callTime = [d \in GLHEs |-> -1]
    /\ resetDue = TRUE

(* an input file of vertical devices without errors *)
InitVertical ==
    /\ numSlinkyGLHEs = 0
    /\ kind = [d \in GLHEs |-> "vertical"]
    /\ pipeThick = [d \in GLHEs |-> 2]
    /\ useGroundTempDataForKusuda = [d \in GLHEs |-> FALSE]
    /\ PubGroundTempSurfFlag = TRUE
    /\ surge = FALSE

InitArrays ==
    /\ N = 1 /\ currentSimTime = 0 /\ locHourOfDay = 0 /\ locDayOfSim = 0
    /\ prevTimeSteps = dimension((SubAGG + 1) * maxTSinHr + 1, 0)
    /\ PrevN = 1 /\ updateCurSimTime = TRUE /\ triggerDesignDayReset = FALSE
    /\ QnSubHr = [d \in GLHEs |-> IF kind[d] = "slinky" THEN <<>>
                                ELSE dimension((SubAGG + 1) * maxTSinHr + 1, 0)]
    /\ QnHr = [d \in GLHEs |-> IF kind[d] = "slinky" THEN <<>>
                                ELSE dimension(hrsPerMonth + AGG + SubAGG, 0)]
    /\ QnMonthlyAgg = [d \in GLHEs |-> IF kind[d] = "slinky" THEN <<>>
                                ELSE dimension(maxSimYears * monthsInYear, 0)]
    /\ LastHourN = [d \in GLHEs |-> IF kind[d] = "slinky" THEN <<>>
                                ELSE dimension(SubAGG + 1, 0)]
    /\ prevHour = [d \in GLHEs |-> 1]
    /\ lastQnSubHr = [d \in GLHEs |-> 0]
    /\ inletTemp = [d \in GLHEs |-> 0]
    /\ outletTemp = [d \in GLHEs |-> 0]
    /\ QGLHE = [d \in GLHEs |-> 0]
    /\ aveFluidTemp = [d \in GLHEs |-> 0]
    /\ boreholeTemp = [d \in GLHEs |-> 0]
    /\ massFlowRate = [d \in GLHEs |-> 0]
    /\ myEnvrnFlag = [d \in GLHEs |-> TRUE]

InitGLHE ==
    /\ GetInput = TRUE /\ firstTime = TRUE /\ numErrorCalls = 0
    /\ checkEquipName = <<>> /\ compIndex = [d \in GLHEs |-> 0]
    /\ gFuncCalls = [d \in GLHEs |-> 0]
    /\ halted = "no"
    /\ solve = NoSolve /\ field = NoField
    /\ InitArrays

Init ==
    /\ numVerticalGLHEs \in 1..MaxGLHE
    /\ InitVertical
    /\ longRun = FALSE
    /\ TimeStepZone = TicksPerHour \div MaxStepsPerHour
    /\ itersLeft = MaxIter
    /\ InitClock /\ InitGLHE
    /\ lookup = NoLookup

InitLong ==
    /\ numVerticalGLHEs = 1
    /\ InitVertical
    /\ longRun = TRUE
    /\ TimeStepZone = TicksPerHour
    /\ itersLeft = 0
    /\ InitClock /\ InitGLHE
    /\ lookup = NoLookup

Next ==
    \/ Sim
    \/ NextSysStep
    \/ NextTimeStep
    \/ NextDay
    \/ EndWarmup
    \/ NewEnvironment

Spec == Init /\ [][Next]_vars

SpecLong == InitLong /\ [][Next]_vars

(***************************************************************************)
(* A loop that makes its first call of an environment, or of the run       *)
(* period after the warmup, one time step late: the first elapsed time the *)
(* devices see is then > 0.                                                *)
(***************************************************************************)
Idle ==
    /\ halted = "no"
    /\ resetDue
    /\ called = {} /\ converged = {}
    /\ converged' = GLHEs
    /\ UNCHANGED <<clockVars, moduleVars, memberVars, envrn, called, itersLeft,
                   longRun, ghostVars, lookup, inputVars, staticVars, runVars,
                   callVars>>

NextLate ==
    \/ Sim
    \/ Idle
    \/ NextSysStep
    \/ NextTimeStep
    \/ NextDay
    \/ EndWarmup

SpecLate == Init /\ [][NextLate]_vars

(***************************************************************************)
(* Input files of vertical and coil devices, with and without errors, and  *)
(* a loop that surges: one warmup day and one day of the run period, two   *)
(* time steps per hour, every call with the loop's conditions.             *)
(***************************************************************************)
InitField ==
    /\ \E nV \in 0..MaxGLHE : \E nS \in 0..MaxGLHE :
           /\ nV + nS \in 1..MaxGLHE
           /\ numVerticalGLHEs = nV
           /\ numSlinkyGLHEs = nS
    /\ kind \in {k \in [GLHEs -> {"vertical", "slinky"}] :
                    Cardinality({d \in GLHEs : k[d] = "vertical"})
                        = numVerticalGLHEs}
    /\ pipeThick \in [GLHEs -> PipeThicks]
    /\ useGroundTempDataForKusuda \in
           {f \in [GLHEs -> BOOLEAN] : \A d \in GLHEs : f[d] => kind[d] = "slinky"}
    /\ PubGroundTempSurfFlag \in BOOLEAN
    /\ surge = TRUE
    /\ longRun = TRUE
    /\ TimeStepZone = TicksPerHour \div MaxStepsPerHour
    /\ itersLeft = 0
    /\ InitClock /\ InitGLHE
    /\ lookup = NoLookup

NextField ==
    \/ Sim
    \/ NextSysStep
    \/ NextTimeStep
    \/ EndWarmup

SpecField == InitField /\ [][NextField]_vars

(***************************************************************************)
(* Input files without errors of up to MaxNamedGLHE devices of both types, *)
(* in every order: one warmup day and one day of the run period.           *)
(***************************************************************************)
InitNames ==
    /\ \E nV \in 0..MaxNamedGLHE : \E nS \in 0..MaxNamedGLHE :
           /\ nV + nS \in 1..MaxNamedGLHE
           /\ numVerticalGLHEs = nV
           /\ numSlinkyGLHEs = nS
    /\ kind \in {k \in [GLHEs -> {"vertical", "slinky"}] :
                    Cardinality({d \in GLHEs : k[d] = "vertical"})
                        = numVerticalGLHEs}
    /\ pipeThick = [d \in GLHEs |-> 2]
    /\ useGroundTempDataForKusuda = [d \in GLHEs |-> FALSE]
    /\ PubGroundTempSurfFlag = TRUE
    /\ surge = FALSE
    /\ longRun = TRUE
    /\ TimeStepZone = TicksPerHour \div MaxStepsPerHour
    /\ itersLeft = 0
    /\ InitClock /\ InitGLHE
    /\ lookup = NoLookup

SpecNames == InitNames /\ [][NextField]_vars

(***************************************************************************)
(* interpGFunc on its own: a table and a query are drawn, the call answers. *)
(* The tables have strictly increasing log-times; log-times, responses and *)
(* queries lie on a grid on which the line through two entries is exact.   *)
(***************************************************************************)
RECURSIVE TablesFrom(_, _)
TablesFrom(t, n) ==
    IF n = 1 THEN {<<t>>}
    ELSE {<<t>> \o r : r \in UNION {TablesFrom(t + g, n - 1) : g \in {1000, 2000}}}

LogTimeTables == UNION {TablesFrom(-4000, n) : n \in 2..MaxPairs}
Responses(n) == [1..n -> {0, 1000, 3000}]
Queries == {500 * k : k \in -10..6}

InitInterp ==
    /\ numVerticalGLHEs = 1
    /\ InitVertical
    /\ longRun = FALSE
    /\ TimeStepZone = TicksPerHour
    /\ itersLeft = 0
    /\ InitClock /\ InitGLHE
    /\ \E lnT \in LogTimeTables : \E gF \in Responses(Len(lnT)) :
       \E x \in Queries :
           lookup = [lnT |-> lnT, gF |-> gF, x |-> x, done |-> FALSE, y |-> 0]

InterpGFuncCall ==
    /\ ~lookup.done
    /\ lookup' = [lookup EXCEPT
                      !.done = TRUE,
                      !.y = interpGFunc(lookup.lnT, lookup.gF,
                                        Len(lookup.lnT), lookup.x)]
    /\ UNCHANGED <<clockVars, moduleVars, memberVars, driverVars, ghostVars,
                   inputVars, staticVars, runVars, callVars>>

NextInterp == InterpGFuncCall

SpecInterp == InitInterp /\ [][NextInterp]_vars

(***************************************************************************)
(* The solver on its own: an inlet temperature, a flow and an elapsed time *)
(* are drawn; the history is empty (all pulses zero, the elapsed time just *)
(* stored); the solve is made with N = 1 (single-pulse formula) and with   *)
(* N = 2 (superposition).                                                  *)
(***************************************************************************)
SolveInletTemps == {5000, 10000, 20000, 25000}
SolveMassFlows == {0, 10, 100, 200}

EmptyHistory(Tin, mdot, t, n) ==
    [Working(1) EXCEPT !.N = n,
                       !.currentSimTime = t,
                       !.inletTemp = Tin,
                       !.massFlowRate = mdot,
                       !.prevTimeSteps = eoshift(@, t),
                       !.LastHourN = Fill(@, 1)]

InitSolve ==
    /\ numVerticalGLHEs = 1
    /\ InitVertical
    /\ longRun = FALSE
    /\ TimeStepZone = TicksPerHour
    /\ itersLeft = 0
    /\ InitClock
    /\ GetInput = TRUE /\ firstTime = TRUE /\ numErrorCalls = 0
    /\ checkEquipName = <<>> /\ compIndex = [d \in GLHEs |-> 0]
    /\ gFuncCalls = [d \in GLHEs |-> 0]
    /\ halted = "no"
    /\ field = NoField
    /\ \E Tin \in SolveInletTemps : \E mdot \in SolveMassFlows :
       \E t \in 1..SolveTicks :
           solve = [NoSolve EXCEPT !.Tin = Tin, !.mdot = mdot, !.t = t]
    /\ lookup = NoLookup
    /\ InitArrays

SolveCall ==
    /\ ~solve.done
    /\ solve' = [solve EXCEPT
                     !.done = TRUE,
                     !.Rconv = Rconv(solve.mdot),
                     !.first = Superpose(EmptyHistory(solve.Tin, solve.mdot,
                                                      solve.t, 1)).sol,
                     !.general = Superpose(EmptyHistory(solve.Tin, solve.mdot,
                                                        solve.t, 2)).sol]
    /\ UNCHANGED <<clockVars, moduleVars, memberVars, driverVars, ghostVars,
                   lookup, inputVars, staticVars, runVars, field>>

NextSolve == SolveCall

SpecSolve == InitSolve /\ [][NextSolve]_vars

(***************************************************************************)
(* GLHESlinky::calcGFunctions, one time sample: the sum over the rings of  *)
(* the symmetric part of the field.  response[<<i, j>>] is the response of *)
(* a ring to a ring i trenches and j coils away (the double integral, the  *)
(* mid-field formula or zero, which valStored keeps per offset).           *)
(***************************************************************************)
isEven(val) == val % 2 = 0
numLC(numCoils) == (numCoils + 1) \div 2
numRC(numTrenches) == (numTrenches + 1) \div 2
fraction(numTrenches) == IF numTrenches > 1 THEN 250 ELSE 500

(* variant: the centre ring of an odd field counts half *)
symmetryWeightHalf(numTrenches, numCoils, m1, n1) ==
    IF ~isEven(numTrenches) /\ m1 = numRC(numTrenches) /\ numTrenches > 1
    THEN 500
    ELSE IF ~isEven(numCoils) /\ n1 = numLC(numCoils) THEN 500
    ELSE 1000

(* 0.25, 0.5 or 1 times the calculated value *)
symmetryWeight(numTrenches, numCoils, m1, n1) ==
    IF /\ ~isEven(numTrenches) /\ ~isEven(numCoils)
       /\ m1 = numRC(numTrenches) /\ n1 = numLC(numCoils)
       /\ numTrenches > 1
    THEN 250
    ELSE IF ~isEven(numTrenches) /\ m1 = numRC(numTrenches) /\ numTrenches > 1
    THEN 500
    ELSE IF ~isEven(numCoils) /\ n1 = numLC(numCoils) THEN 500
    ELSE 1000

(* the response of ring (m, n) to ring (m1, n1), times w *)
ringResponse(response, m, n, m1, n1, w) ==
    RMul(w, response[<<Abs(m - m1), Abs(n - n1)>>])

(* the four loops of one time sample, over m1, n1 up to mLimit, nLimit *)
ringSum(f, mLimit, nLimit, weighted) ==
    SumOver([m1 \in 1..mLimit |->
      SumOver([n1 \in 1..nLimit |->
        SumOver([m \in 1..f.numTrenches |->
          SumOver([n \in 1..f.numCoils |->
            ringResponse(f.response, m, n, m1, n1,
                         IF weighted
                         THEN symmetryWeight(f.numTrenches, f.numCoils, m1, n1)
                         ELSE 1000)],
            1, f.numCoils)],
          1, f.numTrenches)],
        1, nLimit)],
      1, mLimit)

(* gFunc / ( fraction * numTrenches * numCoils ) *)
gFuncOfField(f) ==
    RDiv(ringSum(f, numRC(f.numTrenches), numLC(f.numCoils), TRUE),
         RMul(fraction(f.numTrenches), f.numTrenches * f.numCoils * 1000))

(* the sum over all pairs of rings / ( numTrenches * numCoils ) *)
allPairsOfField(f) ==
    RDiv(ringSum(f, f.numTrenches, f.numCoils, FALSE),
         f.numTrenches * f.numCoils * 1000)

(* valStored, all entries -1.0 (lines 282 and 356-360) *)
clearStored(f) == [o \in (0..f.numTrenches) \X (0..f.numCoils) |-> -1000]

(* variant: a stored zero counts as nothing stored *)
nothingStoredOrZero(v) == v <= 0

(* valStored( mm1, nn1 ) < 0: no calculated value has been stored *)
nothingStored(v) == v < 0

(* the k-th pass of the four loops, k = 0, 1, ...: m1, n1, m, n *)
ringPass(f, k) ==
    LET nC == f.numCoils
        nT == f.numTrenches
        nL == numLC(nC)
    IN [m1 |-> k \div (nC * nT * nL) + 1,
        n1 |-> ((k \div (nC * nT)) % nL) + 1,
        m |-> ((k \div nC) % nT) + 1,
        n |-> (k % nC) + 1]

(* one pass: the response of the pair is calculated and stored, or the
   stored value is taken; a holds valStored, the number of calculations per
   offset pair, and gFunc *)
ringStep(f, response, a, p) ==
    LET o == <<Abs(p.m - p.m1), Abs(p.n - p.n1)>>
        w == symmetryWeight(f.numTrenches, f.numCoils, p.m1, p.n1)
    IN IF nothingStored(a.valStored[o])
       THEN [valStored |-> [a.valStored EXCEPT ![o] = response[o]],
             evals |-> [a.evals EXCEPT ![o] = @ + 1],
             gFunc |-> RAdd(a.gFunc, RMul(w, response[o]))]
       ELSE [a EXCEPT !.gFunc = RAdd(@, RMul(w, a.valStored[o]))]

RECURSIVE ringWalk(_, _, _, _)
ringWalk(f, response, a, k) ==
    IF k >= numRC(f.numTrenches) * numLC(f.numCoils)
                * f.numTrenches * f.numCoils
    THEN a
    ELSE Let(ringStep(f, response, a, ringPass(f, k)),
             LAMBDA b : ringWalk(f, response, b, k + 1))

(* one time sample NT: valStored is cleared, then the four loops run *)
timeSample(f, response) ==
    ringWalk(f, response,
             [valStored |-> clearStored(f),
              evals |-> [o \in DOMAIN response |-> 0],
              gFunc |-> 0], 0)

(* the responses of the next time sample: every ring pair has warmed *)
laterResponse(response) == [o \in DOMAIN response |-> response[o] + 500]

(* the responses of the time samples NT = 1, 2 *)
sampleResponse(f, NT) ==
    IF NT = 1 THEN f.response ELSE laterResponse(f.response)

RingResponses == {0, 1000}

InitRing ==
    /\ numVerticalGLHEs = 1
    /\ InitVertical
    /\ longRun = FALSE
    /\ TimeStepZone = TicksPerHour
    /\ itersLeft = 0
    /\ InitClock
    /\ GetInput = TRUE /\ firstTime = TRUE /\ numErrorCalls = 0
    /\ checkEquipName = <<>> /\ compIndex = [d \in GLHEs |-> 0]
    /\ gFuncCalls = [d \in GLHEs |-> 0]
    /\ halted = "no"
    /\ solve = NoSolve
    /\ \E nT \in 1..MaxTrenches : \E nC \in 1..MaxCoils :
       \E r \in [(0..(nT - 1)) \X (0..(nC - 1)) -> RingResponses] :
           field = [NoField EXCEPT !.numTrenches = nT, !.numCoils = nC,
                                   !.response = r]
    /\ lookup = NoLookup
    /\ InitArrays

RingCall ==
    /\ ~field.done
    /\ field' = [field EXCEPT !.done = TRUE,
                              !.gFunc = gFuncOfField(field),
                              !.samples =
                                  [NT \in 1..2 |->
                                      timeSample(field,
                                                 sampleResponse(field, NT))],
                              !.allPairs = allPairsOfField(field)]
    /\ UNCHANGED <<clockVars, moduleVars, memberVars, driverVars, ghostVars,
                   lookup, inputVars, staticVars, runVars, solve>>

NextRing == RingCall

SpecRing == InitRing /\ [][NextRing]_vars

(***************************************************************************)
(* The properties.                                                         *)
(***************************************************************************)
Solved == last.d # 0 /\ last.tr.branch \in {"first", "noagg", "agg"}
AllZero(a) == \A i \in DOMAIN a : a[i] = 0

(* C1: after every call of calcGroundHeatExchanger whose elapsed time is
   <= 0, the outlet temperature of the device equals its inlet temperature
   and its heat rate QGLHE is zero, whatever earlier calls left behind. *)
C1_InactiveCallReportsZero ==
    (last.d # 0 /\ last.tr.branch = "inactive")
        => /\ outletTemp[last.d] = inletTemp[last.d]
           /\ QGLHE[last.d] = 0

(* C2: after every call with elapsed time > 0 and mass flow rate <= 0, in
   whichever solver branch, the heat rate QGLHE and the pending heat pulse
   lastQnSubHr are zero and the outlet temperature equals the inlet
   temperature. *)
C2_ZeroFlowShortcut ==
    (Solved /\ massFlowRate[last.d] <= 0)
        => /\ QGLHE[last.d] = 0
           /\ lastQnSubHr[last.d] = 0
           /\ outletTemp[last.d] = inletTemp[last.d]

(* a zero-flow call in the branch with monthly aggregation, over a history
   that is not zero *)
C2_Witness ==
    /\ Solved /\ last.tr.branch = "agg"
    /\ massFlowRate[last.d] = 0
    /\ QnMonthlyAgg[last.d][1] # 0
    /\ boreholeTemp[last.d] # tempGround
    /\ QGLHE[last.d] = 0

(* C3: a second call of a device at the elapsed time of its previous call,
   with no reset in it, leaves N, the timestamp ring, LastHourN and the
   sub-hourly, hourly and monthly sequences unchanged, and with the same
   inlet temperature and flow it gives the same outlet temperature and heat
   rate. *)
C3_RepeatedCall ==
    \A d \in GLHEs :
        (last'.d = d /\ last'.repeat /\ ~last'.tr.reset /\ ~last'.tr.envInit)
        => /\ N' = N
           /\ prevTimeSteps' = prevTimeSteps
           /\ LastHourN'[d] = LastHourN[d]
           /\ QnSubHr'[d] = QnSubHr[d]
           /\ QnHr'[d] = QnHr[d]
           /\ QnMonthlyAgg'[d] = QnMonthlyAgg[d]
           /\ (inletTemp'[d] = inletTemp[d] /\ massFlowRate'[d] = massFlowRate[d])
                  => /\ outletTemp'[d] = outletTemp[d]
                     /\ QGLHE'[d] = QGLHE[d]

C3_Idempotent == [][C3_RepeatedCall]_vars

(* a repeated call at a positive time that solved a non-zero heat rate over
   a history of several steps *)
C3_Witness ==
    /\ Solved /\ last.repeat
    /\ N > 3
    /\ QGLHE[last.d] # 0
    /\ QnSubHr[last.d][1] # 0

(* C4: a call with elapsed time > 0 that differs from the front of the
   timestamp ring makes N grow by one, puts the elapsed time at the front
   of the ring and the pending heat pulse lastQnSubHr at the front of the
   sub-hourly sequence; the older entries of both move back by one and the
   oldest is dropped. *)
C4_NewTimeCall ==
    \A d \in GLHEs :
        (last'.d = d /\ ClockTime > 0 /\ prevTimeSteps[1] # ClockTime)
        => /\ N' = N + 1
           /\ Len(prevTimeSteps') = Len(prevTimeSteps)
           /\ prevTimeSteps'[1] = ClockTime
           /\ \A i \in 2..Len(prevTimeSteps) :
                  prevTimeSteps'[i] = prevTimeSteps[i - 1]
           /\ Len(QnSubHr'[d]) = Len(QnSubHr[d])
           /\ QnSubHr'[d][1] = lastQnSubHr[d]
           /\ \A i \in 2..Len(QnSubHr[d]) :
                  QnSubHr'[d][i] = QnSubHr[d][i - 1]

C4_PushOnNewTime == [][C4_NewTimeCall]_vars

(* a call that stored its time and pushed a non-zero pulse onto a non-zero
   older pulse *)
C4_Witness ==
    /\ Solved /\ last.tr.timePush /\ last.tr.subPush
    /\ QnSubHr[last.d][1] # 0
    /\ QnSubHr[last.d][2] # 0
    /\ QnSubHr[last.d][1] # QnSubHr[last.d][2]

(* C5: a call at a positive elapsed time pushes an hourly entry exactly
   when it is the device's first call in a new hour of the elapsed time,
   and the push puts N at the front of LastHourN. *)
C5_HourlyPushPerBoundary ==
    Solved
        => /\ last.tr.hourPush <=> last.hourCrossed
           /\ last.tr.hourPush => LastHourN[last.d][1] = N

(* C6: at every hourly push with advancing timestamps, K = N - LastHourN(1)
   (LastHourN as it was before the push) is at least 1, and the pushed
   average times its span prevTimeSteps(1) - prevTimeSteps(K+1) equals the
   sum over J = 1..K of QnSubHr(J) times prevTimeSteps(J) -
   prevTimeSteps(J+1), up to the rounding of the division. *)
C6_HourlyAverageConserves ==
    (last.d # 0 /\ last.tr.hourPush /\ prevTimeSteps[1] > prevTimeSteps[2])
        => LET d == last.d
               K == N - LastHourN[d][2]
               avg == QnHr[d][1]
               span == prevTimeSteps[1] - prevTimeSteps[K + 1]
               part == [J \in 1..K |->
                          QnSubHr[d][J] * (prevTimeSteps[J] - prevTimeSteps[J + 1])]
               total == SumOver(part, 1, K)
           IN /\ K >= 1 /\ K + 1 <= Len(prevTimeSteps)
              /\ avg # NaN
              /\ span > 0
              /\ avg * span <= total
              /\ total < avg * span + span

(* C7: the k-th monthly entry is stored exactly on the first call after the
   elapsed time has crossed 730*k hours, and it is the mean of the 730 most
   recent hourly entries. *)
C7_MonthStoredAtBoundary ==
    Solved
        => LET d == last.d
               h == IntHours(currentSimTime)
               k == last.tr.monthNum
           IN /\ k # 0 => /\ h = hrsPerMonth * k
                          /\ QnMonthlyAgg[d][k] =
                                 SumOver(QnHr[d], 1, hrsPerMonth) \div hrsPerMonth
              /\ (last.hourCrossed /\ h % hrsPerMonth = 0) => k = h \div hrsPerMonth

(* C8: in the first time step of a new environment, and in the first time
   step after DayOfSim has returned to 1 from a later day, every device that
   has been called has all-zero sub-hourly, hourly and monthly sequences,
   and N is 1. *)
C8_ResetClears ==
    (resetDue /\ last.d # 0)
        => /\ AllZero(QnSubHr[last.d])
           /\ AllZero(QnHr[last.d])
           /\ AllZero(QnMonthlyAgg[last.d])
           /\ N = 1

(* the reset of calcGroundHeatExchanger at the end of a warmup of several
   days, over a device that had solved a non-zero pulse *)
C8_Witness ==
    /\ resetDue /\ last.d # 0 /\ last.tr.reset
    /\ ~BeginEnvrnFlag
    /\ lastQnSubHr[last.d] # 0
    /\ N = 1

(* C9: the sub-hourly sequence and the timestamp ring always hold
   (SubAGG+1)*maxTSinHr+1 = 961 entries, the hourly sequence
   730+AGG+SubAGG = 937 entries and the monthly sequence maxSimYears*12
   entries. *)
C9_StorageBounded ==
    /\ DOMAIN prevTimeSteps = 1..((SubAGG + 1) * maxTSinHr + 1)
    /\ Len(prevTimeSteps) = 961
    /\ \A d \in GLHEs :
          /\ DOMAIN QnSubHr[d] = 1..961
          /\ DOMAIN QnHr[d] = 1..(hrsPerMonth + AGG + SubAGG)
          /\ Len(QnHr[d]) = 937
          /\ DOMAIN QnMonthlyAgg[d] = 1..(maxSimYears * monthsInYear)

(* more time steps than the ring holds and more hours than the hourly
   sequence holds have been pushed *)
C9_Witness ==
    /\ Solved /\ last.tr.subPush /\ last.tr.hourPush
    /\ N > (SubAGG + 1) * maxTSinHr + 2
    /\ IntHours(currentSimTime) > hrsPerMonth + AGG + SubAGG
    /\ QnSubHr[last.d][961] # 0
    /\ QnHr[last.d][937] # 0

(* y lies on the line through entries i and j of the table *)
OnLine(t, i, j, x, y) ==
    (y - t.gF[i]) * (t.lnT[j] - t.lnT[i]) = (x - t.lnT[i]) * (t.gF[j] - t.gF[i])

(* C10: for a table of NPairs >= 2 entries with strictly increasing
   log-times and a query x, interpGFunc returns GFNC(i) when x = LNTTS(i),
   the value on the line through entries i and i+1 when x lies strictly
   between them, the value on the line through entries 1 and 2 when x <
   LNTTS(1), and the value on the line through the last two entries when
   x > LNTTS(NPairs). *)
C10_InterpGFunc ==
    lookup.done
        => LET np == Len(lookup.lnT)
               x == lookup.x
               y == lookup.y
           IN /\ y # NaN
              /\ \A i \in 1..np : x = lookup.lnT[i] => y = lookup.gF[i]
              /\ \A i \in 1..(np - 1) :
                    (lookup.lnT[i] < x /\ x < lookup.lnT[i + 1])
                        => OnLine(lookup, i, i + 1, x, y)
              /\ x < lookup.lnT[1] => OnLine(lookup, 1, 2, x, y)
              /\ x > lookup.lnT[np] => OnLine(lookup, np - 1, np, x, y)

(* a query beyond the last entry of a four-entry table, answered with a
   value beyond the last response *)
C10_Witness ==
    /\ lookup.done
    /\ Len(lookup.lnT) = 4
    /\ lookup.x > lookup.lnT[4]
    /\ lookup.y > lookup.gF[4]
    /\ lookup.gF[4] > lookup.gF[3]


(* C11: every device whose calcGroundHeatExchanger has been called has had
   calcGFunctions run exactly once, so that its table exists before its
   first solve and is not computed again *)
C11_GFunctionsOncePerDevice ==
    \A d \in GLHEs : callTime[d] >= 0 => gFuncCalls[d] = 1

(* C12: when the input file has a device whose pipe wall is at least half
   the outer diameter, or a coil device with a blank far-field field and no
   shallow ground temperatures, the program ends in the fatal error of
   GetGroundHeatExchangerInput in its first SimGroundHeatExchangers call:
   no calcGroundHeatExchanger (and no calcGFunctions) has run for any
   device *)
C12_InputErrorsAreFatal ==
    LET bad == \E d \in GLHEs :
                   \/ 2 * pipeThick[d] >= pipeOutDia
                   \/ /\ kind[d] = "slinky"
                      /\ useGroundTempDataForKusuda[d]
                      /\ ~PubGroundTempSurfFlag
    IN bad =>
         /\ \A d \in GLHEs : callTime[d] = -1 /\ gFuncCalls[d] = 0
         /\ \/ halted = "fatal" /\ last.tr.branch = "fatal"
            \/ halted = "no" /\ GetInput /\ last.d = 0

C12_Witness ==
    /\ halted = "fatal"
    /\ numVerticalGLHEs = 1 /\ numSlinkyGLHEs = 1
    /\ \A d \in GLHEs : 2 * pipeThick[d] < pipeOutDia
    /\ \E d \in GLHEs : useGroundTempDataForKusuda[d]
    /\ ~PubGroundTempSurfFlag

(* C13: after every call that ran updateGHX the outlet node holds the
   computed outlet temperature; a warning is reported only outside warmup
   and does not end the program; and once an outlet-inlet difference above
   deltaTempLimit has occurred outside warmup, a warning has been reported *)
C13_ExcursionWarned ==
    (last.d # 0 /\ last.tr.branch \in {"inactive", "first", "noagg", "agg"}) =>
        /\ last.tr.outletNodeTemp = outletTemp[last.d]
        /\ last.tr.warned => ~WarmupFlag /\ halted = "no"
        /\ (last.tr.excursion /\ ~WarmupFlag) => numErrorCalls >= 1

(* the response 1 to a unit pulse, whatever the elapsed time *)
UnitResponse(dt) == 1000

(* C14: in every superposition step the coefficients of the history sum
   telescope: with the same response c = 1 for every elapsed time, the sum
   over the sub-hourly, hourly and monthly buckets is the most recent
   sub-hourly pulse QnSubHr(1) *)
C14_SumTelescopes ==
    (last.d # 0 /\ last.tr.branch \in {"noagg", "agg"}) =>
        \E s \in {Working(last.d)} :
            SumTotal(UnitResponse, s, Limits(s)) = s.QnSubHr[1]

(* C15: for every field of numTrenches x numCoils rings and every response
   that depends on the offset between two rings only, the sum over the
   rings of the symmetric part with the weights 0.25 / 0.5 / 1, divided by
   fraction * numTrenches * numCoils, is the sum over all pairs of rings
   divided by numTrenches * numCoils *)
C15_SymmetryWeighting ==
    field.done => field.gFunc = field.allPairs

C15_Witness ==
    /\ field.done
    /\ field.numTrenches = 3 /\ field.numCoils = 3
    /\ field.response[<<0, 0>>] = 1000 /\ field.response[<<1, 2>>] = 1000
    /\ field.response[<<2, 1>>] = 0
    /\ field.gFunc > 0

(* a and b differ by at most one hundredth of scale (the arithmetic of the
   two formulas rounds differently) *)
Close(a, b, scale) == Abs(a - b) * 100 <= Abs(scale)

(* C16: with non-zero flow and an empty history the single-pulse formula
   of the N = 1 branch and the superposition formula give the same heat
   pulse, the same outlet temperature and the same average fluid
   temperature *)
C16_FirstStepAgrees ==
    (solve.done /\ solve.mdot > 0) =>
        /\ Close(solve.first.tmpQnSubHourly, solve.general.tmpQnSubHourly,
                 solve.first.tmpQnSubHourly)
        /\ Close(solve.first.ToutNew, solve.general.ToutNew,
                 tempGround - solve.Tin)
        /\ Close(solve.first.fluidAveTemp, solve.general.fluidAveTemp,
                 tempGround - solve.Tin)

(* C17: with an empty history, an inlet of 20 C above the ground
   temperature of 15 C and a flow of 0.01 kg/s, the first solve gives an
   outlet temperature strictly between ground and inlet temperature and a
   positive heat rate *)
C17_WarmInletRejectsHeat ==
    (solve.done /\ solve.Tin = 20000 /\ solve.mdot = 10) =>
        /\ tempGround < solve.general.ToutNew
        /\ solve.general.ToutNew < solve.Tin
        /\ RMul(solve.general.tmpQnSubHourly, totalTubeLength) > 0

(* C18: a call at an elapsed time > 0 that finds the step counter at 1, or
   resets it to 1, is solved by the single-pulse formula of the N = 1
   branch *)
C18_FirstCall ==
    (/\ last'.d # 0
     /\ last'.tr.branch \in {"first", "noagg", "agg"}
     /\ N = 1 \/ last'.tr.reset)
    => last'.tr.branch = "first"

C18_FirstStepState == [][C18_FirstCall]_vars

(* C19: for a solve with N > 1 at the elapsed time t, monthly buckets are
   used exactly when t >= hrsPerMonth + AGG + SubAGG, and then currentMonth
   is at least 1 and is the number of whole months that ended AGG + SubAGG
   hours or more before t *)
C19_StateFromTime ==
    (last.d # 0 /\ last.tr.branch \in {"first", "noagg", "agg"} /\ N > 1) =>
        LET t == currentSimTime
        IN /\ last.tr.branch = "agg"
                <=> t >= (hrsPerMonth + AGG + SubAGG) * TicksPerHour
           /\ last.tr.branch = "agg" =>
                /\ last.tr.currentMonth >= 1
                /\ last.tr.currentMonth =
                       (t - (AGG + SubAGG) * TicksPerHour)
                           \div (hrsPerMonth * TicksPerHour)
           /\ last.tr.branch # "agg" => last.tr.currentMonth = 0

C19_Witness ==
    /\ last.d # 0 /\ last.tr.branch = "agg" /\ N > 1
    /\ last.tr.currentMonth = 2

(* C20: after a call at an elapsed time <= 0 the sub-hourly, hourly and
   monthly sequences of the device, the timestamp ring and the step counter
   are at their initial values *)
C20_InactiveCallClears ==
    (last.d # 0 /\ last.tr.branch = "inactive") =>
        /\ AllZero(QnSubHr[last.d])
        /\ AllZero(QnHr[last.d])
        /\ AllZero(QnMonthlyAgg[last.d])
        /\ AllZero(prevTimeSteps)
        /\ N = 1

(* the timestamp ring holds the elapsed time t and nothing else *)
OnlyCurrentTime(ring, t) ==
    /\ ring[1] = t
    /\ \A i \in 2..Len(ring) : ring[i] = 0

(* C21: after a call that applied the reset at an elapsed time > 0, the
   timestamp ring holds only the current time and the sub-hourly sequence
   of the device holds no heat pulse solved before the reset *)
C21_ResetBeforePush ==
    (last.d # 0 /\ last.tr.reset /\ currentSimTime > 0) =>
        /\ OnlyCurrentTime(prevTimeSteps, currentSimTime)
        /\ AllZero(QnSubHr[last.d])

(* C22: with two devices called one after the other, a call of a device at
   an elapsed time > 0 that it has not seen before pushes the device's own
   previous heat pulse to the front of its own sub-hourly sequence, whichever
   device is called first; and after a call in the first time step of an
   environment or of the run period the sequences of the device called are
   all zero *)
C22_OwnHistory ==
    \A d \in GLHEs :
        (Cardinality(GLHEs) = 2 /\ last'.d = d)
        => /\ (last'.tr.branch \in {"first", "noagg", "agg"} /\ ~last'.repeat)
                  => /\ last'.tr.subPush
                     /\ QnSubHr'[d][1] = lastQnSubHr[d]
           /\ (resetDue /\ last'.tr.branch = "inactive")
                  => /\ AllZero(QnSubHr'[d])
                     /\ AllZero(QnHr'[d])
                     /\ AllZero(QnMonthlyAgg'[d])

C22_DevicesIndependent == [][C22_OwnHistory]_vars

(* J after the loop of the hourly average: K + 1, or 1 when the loop does
   not run *)
DivisorIndex(K) == IF K >= 1 THEN K + 1 ELSE 1

(* C23: at every hourly push the time span that divides the hourly
   average, |prevTimeSteps(1) - prevTimeSteps(K+1)| with
   K = N - LastHourN(1), is not zero *)
C23_DivisorNotZero ==
    (last.d # 0 /\ last.tr.hourPush) =>
        /\ DivisorIndex(last.tr.K) \in DOMAIN prevTimeSteps
        /\ prevTimeSteps[1] # prevTimeSteps[DivisorIndex(last.tr.K)]

(* the elapsed-time differences of the sub-hourly terms and of the
   current-step term of a solve on the histories of s *)
SubHourlyDifferences(s) ==
    {RSub(s.currentSimTime, At(s.prevTimeSteps, I + 1)) :
         I \in (1..Limits(s).subHourlyLimit) \cup {1}}

(* C24: every elapsed-time difference that a solve by superposition passes
   to the g-function lookup, currentSimTime - prevTimeSteps(I+1) for each
   sub-hourly term I and for the current-step term, is strictly positive,
   also after the elapsed time has fallen back *)
C24_PositiveDifferences ==
    (last.d # 0 /\ last.tr.branch \in {"noagg", "agg"}) =>
        \A dt \in SubHourlyDifferences(Working(last.d)) : dt # NaN /\ dt > 0

(* a solve after the elapsed time has fallen back without a reset: more
   steps are counted than the elapsed time holds *)
C24_Witness ==
    /\ last.d # 0 /\ last.tr.branch \in {"noagg", "agg"}
    /\ N > currentSimTime + 1
    /\ Limits(Working(last.d)).subHourlyLimit > 1

(* C25: for every flow the solver takes its zero-flow shortcut (in the
   N = 1 branch and in the superposition) exactly when calcHXResistance sets
   the convective resistance to zero *)
C25_ShortcutsAgree ==
    solve.done =>
        /\ solve.general.zeroFlow <=> solve.Rconv = 0
        /\ solve.first.zeroFlow <=> solve.Rconv = 0

C25_Witness ==
    /\ solve.done /\ solve.mdot = 0
    /\ solve.general.zeroFlow /\ solve.first.zeroFlow
    /\ solve.Rconv = 0
    /\ solve.general.ToutNew = solve.Tin

(* C26: within one time sample of calcGFunctions the response of an offset
   pair (|m-m1|, |n-n1|) is calculated at most once, the other ring pairs
   with that offset take the stored value, so that the sum of the sample is
   the sum of the responses of that sample; no value stored for one time
   sample is taken in another *)
C26_StoredPerSample ==
    field.done =>
        \A NT \in 1..2 :
            /\ \A o \in DOMAIN field.response : field.samples[NT].evals[o] <= 1
            /\ field.samples[NT].gFunc =
                   ringSum([field EXCEPT !.response = sampleResponse(field, NT)],
                           numRC(field.numTrenches), numLC(field.numCoils), TRUE)
            /\ \A o \in DOMAIN field.response :
                   field.samples[NT].evals[o] = 1 =>
                       field.samples[NT].valStored[o] = sampleResponse(field, NT)[o]

(* a field in which an offset pair occurs for several ring pairs and one of
   its responses is zero *)
C26_Witness ==
    /\ field.done
    /\ field.numTrenches >= 2 /\ field.numCoils >= 3
    /\ field.response[<<1, 1>>] = 0
    /\ field.samples[1].evals[<<1, 1>>] = 1
    /\ field.samples[2].evals[<<1, 1>>] = 1

(* C27: on one device every call that advances the step counter N (stores
   a new elapsed time) pushes exactly one entry into the sub-hourly
   sequence, the device's previous heat pulse, and no other call pushes;
   also in the first step after a reset, with the saved counter PrevN still
   at its value from before the reset *)
C27_PushPerStep ==
    \A d \in GLHEs :
        (Cardinality(GLHEs) = 1 /\ last'.d = d /\ last'.tr.branch # "fatal")
        => /\ last'.tr.timePush <=> last'.tr.subPush
           /\ last'.tr.timePush =>
                  /\ N' = (IF last'.tr.reset THEN 1 ELSE N) + 1
                  /\ PrevN' = N'
                  /\ QnSubHr'[d][1] = lastQnSubHr[d]
           /\ ~last'.tr.timePush =>
                  \/ last'.tr.reset \/ last'.tr.envInit
                  \/ N' = N /\ QnSubHr'[d] = QnSubHr[d]

C27_PushMatchesStep == [][C27_PushPerStep]_vars

(* the first step after the reset at the end of a warmup: N is 2 again and
   the pulse is pushed *)
C27_Witness ==
    /\ Cardinality(GLHEs) = 1 /\ last.d # 0
    /\ last.tr.timePush /\ last.tr.subPush
    /\ N = 2 /\ ~WarmupFlag
    /\ QnSubHr[last.d][1] # 0

(* C28: every index of a call stays inside its array: no read or write
   outside (oob), sub-hourly and timestamp indexes up to subHourlyLimit + 1
   within SubAGG + 1 hours of steps plus one, IndexN within 1..SubAGG+1,
   hourly indexes up to hourlyLimit within the hourly sequence, MonthNum and
   currentMonth within 1..12*maxSimYears *)
C28_IndexesInside ==
    (last.d # 0 /\ last.tr.branch \in {"inactive", "first", "noagg", "agg"}) =>
        \E lim \in {Limits(Working(last.d))} :
            /\ ~last.tr.oob
            /\ last.tr.hourPush => last.tr.K + 1 <= Len(prevTimeSteps)
            /\ last.tr.monthNum # 0 =>
                   last.tr.monthNum \in 1..(monthsInYear * maxSimYears)
            /\ last.tr.branch \in {"noagg", "agg"} =>
                   /\ lim.subHourlyLimit + 1 <= (SubAGG + 1) * TicksPerHour + 1
                   /\ lim.IndexN \in 1..(SubAGG + 1)
                   /\ lim.hourlyLimit <= hrsPerMonth + AGG + SubAGG
            /\ last.tr.branch = "agg" =>
                   lim.currentMonth \in 1..(monthsInYear * maxSimYears)

(* a solve with monthly buckets in the call that stores the second month *)
C28_Witness ==
    /\ last.d # 0 /\ last.tr.branch = "agg"
    /\ last.tr.monthNum = 2
    /\ last.tr.hourPush
    /\ Limits(Working(last.d)).hourlyLimit > SubAGG + 1

(* C29: the superposition with monthly buckets reads QnMonthlyAgg(I) for
   1 <= I <= currentMonth only after calcAggregateLoad has stored month I
   for that device since its histories were last cleared *)
C29_MonthsStoredBeforeRead ==
    (last.d # 0 /\ last.tr.branch = "agg") =>
        /\ last.tr.currentMonth >= 1
        /\ \A I \in 1..last.tr.currentMonth : I \in last.stored[last.d]

(* a solve that reads two monthly buckets, both stored in this run *)
C29_Witness ==
    /\ last.d # 0 /\ last.tr.branch = "agg"
    /\ last.tr.currentMonth = 2
    /\ last.stored[last.d] = {1, 2}
    /\ ~WarmupFlag

(* C30: a call of SimGroundHeatExchangers with a non-zero compIndex that is
   valid for the type of the device reads and writes checkEquipName inside
   its bounds *)
C30_NameCheck ==
    \A d \in GLHEs :
        (/\ last'.d = d /\ halted = "no" /\ ~GetInput
         /\ compIndex[d] # 0
         /\ compIndex[d] \in 1..(IF kind[d] = "vertical" THEN numVerticalGLHEs
                                 ELSE numSlinkyGLHEs))
        => /\ compIndex[d] \in DOMAIN checkEquipName
           /\ halted' = "no" => ~checkEquipName'[compIndex[d]]

C30_NameCheckInside == [][C30_NameCheck]_vars

====
